---------------------------- MODULE Spec2Model ----------------------------
(***************************************************************************)
(* Model of the EPUB chapter/title resolution engine of                    *)
(* Tomkmonkey/epubParser.  The repository holds several near-duplicate     *)
(* EpubExtractor classes; the model keeps them apart under `impl`:         *)
(*   "v0"      src/EpubExtractor.js      (paths only, no titles)           *)
(*   "v1"      src/unnamed/part_001      (title from the manifest item)    *)
(*   "v2"      src/unnamed/part_002      (NCX titles matched by position)  *)
(*   "v12"     src/EpubExtractor1.2.js   (NCX titles matched by path)      *)
(*   "compact" src/unnamed/part_000      (minified rewrite of v12)         *)
(*                                                                         *)
(* JavaScript strings are sequences of one-character strings, so that      *)
(* split / filter / join / trim / length are computed, not assumed.        *)
(* The JavaScript value null is the sequence Null, whose only element is   *)
(* not a character.                                                        *)
(***************************************************************************)
EXTENDS Integers, Sequences, FiniteSets, TLC

VARIABLES
    input,          \* arguments handed to a pure function under test
    output,         \* [fn, val]: which function ran and what it returned
    impl,           \* which EpubExtractor class the instance is
    archive,        \* the EPUB file given to the constructor (never mutated)
    concurrent,     \* may a caller issue init() while another is in flight
    zip,            \* this.zip / this.z
    contentOpfPath, \* this.contentOpfPath / this.o
    ncxPath,        \* this.ncxPath / this.n
    arrays,         \* heap: the chapter arrays created so far, by creator
    chapters,       \* this.chapters / this.c: which array the field points to
    initialized,    \* this.initialized / this.i
    pc,             \* per init() call: where the async function stands
    tasks,          \* per init() call: the per-chapter extraction promises
    opened,         \* history: how many times an archive was opened
    parsed,         \* history: how many times a chapter list was built
    loads           \* history: chapters whose document the fallback loaded

vars == <<input, output, impl, archive, concurrent, zip, contentOpfPath,
          ncxPath, arrays, chapters, initialized, pc, tasks, opened, parsed,
          loads>>

pureVars == <<input, output>>

objVars == <<impl, archive, concurrent, zip, contentOpfPath, ncxPath, arrays,
             chapters, initialized, pc, tasks, opened, parsed, loads>>

-----------------------------------------------------------------------------
(* Bounds *)

MaxBaseLen == 3
MaxRefLen == 4

-----------------------------------------------------------------------------
(* Strings *)

Null == <<"null">>

Chars == {"/", ".", "a", "b"}

Strs(n) == UNION {[1..k -> Chars] : k \in 0..n}

\* String.prototype.startsWith('/')
startsWith(str) == Len(str) > 0 /\ str[1] = "/"

\* String.prototype.split('/'): the pieces between separators, empty ones kept
RECURSIVE split(_)
split(str) ==
    IF str = <<>> THEN << <<>> >>
    ELSE LET rest == split(Tail(str))
         IN  IF Head(str) = "/"
             THEN << <<>> >> \o rest
             ELSE << <<Head(str)>> \o Head(rest) >> \o Tail(rest)

\* .split('/').filter(part => part) / .filter(Boolean)
parts(str) == SelectSeq(split(str), LAMBDA p : p # <<>>)

\* Array.prototype.join('/')
RECURSIVE join(_)
join(ps) ==
    IF ps = <<>> THEN <<>>
    ELSE IF Len(ps) = 1 THEN ps[1]
    ELSE ps[1] \o <<"/">> \o join(Tail(ps))

DotDot == <<".", ".">>

pop(ps) == SubSeq(ps, 1, Len(ps) - 1)

-----------------------------------------------------------------------------
(* Path Resolver *)

\* the for loop of resolvePath, from index i on
RECURSIVE resolveLoop(_, _, _)
resolveLoop(baseParts, relativeParts, i) ==
    IF i > Len(relativeParts) THEN baseParts
    ELSE IF relativeParts[i] = DotDot
         THEN resolveLoop(IF Len(baseParts) > 0 THEN pop(baseParts)
                          ELSE baseParts, relativeParts, i + 1)
         ELSE resolveLoop(Append(baseParts, relativeParts[i]),
                          relativeParts, i + 1)

\* a resolver that does not special-case a leading separator
resolvePathKeepsBase(basePath, relativePath) ==
    join(resolveLoop(parts(basePath), parts(relativePath), 1))

\* EpubExtractor.resolvePath (the same text in v0, v1, v2 and v12)
resolvePath(basePath, relativePath) ==
    IF startsWith(relativePath) THEN Tail(relativePath)
    ELSE join(resolveLoop(parts(basePath), parts(relativePath), 1))

\* the for loop of EpubParser.resolveRelativePath: it consumes the leading
\* '..' parts of relativeParts and stops at the first other part; the result
\* is [...baseParts, ...relativeParts]
RECURSIVE relativeLoop(_, _)
relativeLoop(baseParts, relativeParts) ==
    IF relativeParts # <<>> /\ Head(relativeParts) = DotDot
    THEN relativeLoop(IF Len(baseParts) > 0 THEN pop(baseParts)
                      ELSE baseParts, Tail(relativeParts))
    ELSE baseParts \o relativeParts

\* EpubParser.resolveRelativePath
resolveRelativePath(basePath, relativePath) ==
    IF startsWith(relativePath) THEN Tail(relativePath)
    ELSE join(relativeLoop(parts(basePath), parts(relativePath)))

\* the forEach of s(): p === '..' && bp.length ? bp.pop() : bp.push(p)
RECURSIVE sLoop(_, _, _)
sLoop(bp, rp, i) ==
    IF i > Len(rp) THEN bp
    ELSE IF rp[i] = DotDot /\ Len(bp) # 0
         THEN sLoop(pop(bp), rp, i + 1)
         ELSE sLoop(Append(bp, rp[i]), rp, i + 1)

\* EpubExtractor.s of the compact class
s(b, r) ==
    IF startsWith(r) THEN Tail(r)
    ELSE join(sLoop(parts(b), parts(r), 1))

-----------------------------------------------------------------------------
(* Title Fallback Resolver: the heading heuristics on one chapter document *)

\* /\s/ : the white-space characters the texts of the model use
IsSpace(ch) == ch \in {" ", "\n"}

\* String.prototype.replace(/\s+/g, ' '): each white-space run becomes one ' '
RECURSIVE collapse(_)
collapse(text) ==
    IF text = <<>> THEN <<>>
    ELSE IF IsSpace(Head(text))
         THEN IF Len(text) > 1 /\ IsSpace(text[2])
              THEN collapse(Tail(text))
              ELSE <<" ">> \o collapse(Tail(text))
         ELSE <<Head(text)>> \o collapse(Tail(text))

\* String.prototype.trim()
RECURSIVE trim(_)
trim(text) ==
    IF text = <<>> THEN <<>>
    ELSE IF IsSpace(Head(text)) THEN trim(Tail(text))
    ELSE IF IsSpace(text[Len(text)]) THEN trim(SubSeq(text, 1, Len(text) - 1))
    ELSE text

\* textContent.replace(/\s+/g, ' ').trim()
normalize(text) == trim(collapse(text))

\* JavaScript truthiness of a string-or-null value
Truthy(v) == v # Null /\ v # <<>>

\* titleSelectors / C.T: querySelector is asked for these, in this order
titleSelectors == <<"h1", "h2", "title", "Title", "h3">>

\* C.L: the minimum length of an accepted title
L == 2

\* A parsed chapter document is what doc.querySelector(selector) finds for
\* each selector: Null (no element) or the textContent of the first match.

\* EpubExtractor.extractTitleFromXhtml of v12, from selector i on
RECURSIVE extractLoop12(_, _)
extractLoop12(doc, i) ==
    IF i > Len(titleSelectors) THEN Null
    ELSE LET element == doc[titleSelectors[i]]
         IN  IF element # Null
             THEN LET text == normalize(element)
                  IN  IF Len(text) > 1 THEN text ELSE Null
             ELSE extractLoop12(doc, i + 1)

extractTitleFromXhtml(doc) == extractLoop12(doc, 1)

\* EpubExtractor.extractTitleFromXhtml of v2, from selector i on
RECURSIVE extractLoop002(_, _)
extractLoop002(doc, i) ==
    IF i > Len(titleSelectors) THEN Null
    ELSE LET element == doc[titleSelectors[i]]
         IN  IF element # Null THEN normalize(element)
             ELSE extractLoop002(doc, i + 1)

extractTitleFromXhtml002(doc) == extractLoop002(doc, 1)

\* the selector loop inside t() of the compact class, from selector i on:
\* the title it assigns to ch.t, or Null when it assigns none
RECURSIVE tLoop(_, _)
tLoop(d, i) ==
    IF i > Len(titleSelectors) THEN Null
    ELSE LET e == d[titleSelectors[i]]
         IN  IF e # Null /\ Len(normalize(e)) >= L THEN normalize(e)
             ELSE tLoop(d, i + 1)

tSelect(d) == tLoop(d, 1)

-----------------------------------------------------------------------------
(* The archive, as the Archive Reader and the Document Parser present it *)

NCalls == 2
MaxSpine == 2
MaxConcSpine == 1

Calls == 1..NCalls

Impls == {"v0", "v1", "v2", "v12", "compact"}

\* the classes that resolve titles from the NCX and from the documents
TitleImpls == {"v2", "v12", "compact"}

Letter(k) == <<"a", "b", "c", "d", "e", "f", "g", "h", "i">>[k]
Digit(n) == <<"1", "2", "3", "4", "5", "6", "7", "8", "9">>[n]

ContentOpf == <<"c", "o", "n", "t", "e", "n", "t", ".", "o", "p", "f">>
OebpsDir == <<"O", "E", "B", "P", "S", "/">>
EpubDir == <<"E", "P", "U", "B", "/">>

\* possiblePaths / C.O
possiblePaths == <<OebpsDir \o ContentOpf, ContentOpf, EpubDir \o ContentOpf>>

\* The package document of the archive.  Spine slot k holds <itemref idref=k>;
\* slot[k].item says what the manifest holds under id k:
\*   "none"    no item            "nohref"  an item without href attribute
\*   "plain"   href only          "titled"  href and a title attribute
\*   "blank"   href and a title attribute of white space
\* slot[k].doc says what the archive holds at the item's path:
\*   "missing" no entry           "none"    a document without any heading
\*   "h1"      a document with an h1
\*   "short"   a document with a one-character h1 and an h3
\*   "corrupt" an entry whose content cannot be read (the read rejects)
\* slot[k].nav says what the NCX holds for the item's href:
\*   "none"    no navPoint        "title"   a navPoint with a label
\*   "empty"   a navPoint whose label is white space
\*   "same"    a navPoint whose label reads like the default title of slot k
\*   "frag"    a navPoint whose src is the href followed by a fragment
\*   "dot"     a navPoint whose src is the href behind a './' prefix
\*   "nolabel" a navPoint without navLabel/text
\*   "nosrc"   a navPoint without content element
\*   "nested"  a navPoint that is the child of another navPoint, which
\*             has a label of its own and no content element
\* archive.ncx says what there is of the NCX itself:
\*   "undeclared" no item id="ncx"   "nohref" the item has no href attribute
\*   "nofile"  declared, no entry    "throws" reading or querying it throws
\*   "ok"      declared, present and well-formed

HasItem(a, k) == a.slot[k].item # "none"

\* item.getAttribute('href')
Href(a, k) == IF a.slot[k].item = "nohref" THEN Null ELSE <<Letter(k)>>

\* item.getAttribute('title')
TitleAttr(a, k) ==
    CASE a.slot[k].item = "titled" -> <<" ", "M", Letter(k)>>
      [] a.slot[k].item = "blank" -> <<" ">>
      [] OTHER -> Null

\* C.D followed by the number: `章节${n}`
placeholder(n) == <<"章", "节", Digit(n)>>

\* the parsed document of slot k: selector -> textContent of the first match
DocOf(a, k) ==
    [sel \in {"h1", "h2", "title", "Title", "h3"} |->
        CASE a.slot[k].doc = "h1" /\ sel = "h1" -> <<"H", " ", "\n", Letter(k)>>
          [] a.slot[k].doc = "short" /\ sel = "h1" -> <<Digit(k), " ">>
          [] a.slot[k].doc = "short" /\ sel = "h3" -> <<"T", Letter(k)>>
          [] OTHER -> Null]

\* ncxItem.getAttribute('href')
NcxHref == <<"n", "c", "x">>

\* the navPoint written for slot k: the textContent of its ncx:navLabel/
\* ncx:text (Null without one) and the src attribute of its ncx:content
\* (Null without one)
NavText(a, k) ==
    CASE a.slot[k].nav = "empty" -> <<" ", "\n">>
      [] a.slot[k].nav = "same" -> placeholder(k)
      [] a.slot[k].nav = "nolabel" -> Null
      [] OTHER -> <<"N", "\n", Letter(k)>>

NavSrc(a, k) ==
    CASE Href(a, k) = Null -> Null
      [] a.slot[k].nav = "nosrc" -> Null
      [] a.slot[k].nav = "frag" -> Href(a, k) \o <<"#", "f">>
      [] a.slot[k].nav = "dot" -> <<".", "/">> \o Href(a, k)
      [] OTHER -> Href(a, k)

\* the navPoint a nested navPoint is the child of
NavParent == [src |-> Null, text |-> <<"P">>]

\* the snapshot of //ncx:navMap/ncx:navPoint, in document order: the
\* navPoints that are children of navMap
RECURSIVE NavPointsFrom(_, _)
NavPointsFrom(a, k) ==
    IF k > a.n THEN <<>>
    ELSE (CASE a.slot[k].nav = "none" -> <<>>
            [] a.slot[k].nav = "nested" -> <<NavParent>>
            [] OTHER -> <<[src |-> NavSrc(a, k), text |-> NavText(a, k)]>>)
         \o NavPointsFrom(a, k + 1)

NavPoints(a) == NavPointsFrom(a, 1)

\* the archive's entries apart from the container descriptor
Entries(a) ==
    a.opfs
    \cup (IF a.ncx \in {"throws", "ok"} THEN {a.dir \o NcxHref} ELSE {})
    \cup {a.dir \o Href(a, k) :
            k \in {j \in 1..a.n : /\ a.slot[j].item \notin {"none", "nohref"}
                                 /\ a.slot[j].doc # "missing"}}

\* zip.file(path) !== null
hasEntry(a, path) == path \in Entries(a)

\* the document stored at an existing chapter path
docAt(a, path) ==
    DocOf(a, CHOOSE k \in 1..a.n :
                Href(a, k) # Null /\ a.dir \o Href(a, k) = path)

\* does file.async(...) reject for the entry at an existing chapter path
readRejects(a, path) ==
    \E k \in 1..a.n : /\ Href(a, k) # Null
                       /\ a.dir \o Href(a, k) = path
                       /\ a.slot[k].doc = "corrupt"

-----------------------------------------------------------------------------
(* Container Locator *)

\* the first of possiblePaths that zip.file() finds, from index i on
RECURSIVE probe(_, _)
probe(a, i) ==
    IF i > Len(possiblePaths) THEN Null
    ELSE IF hasEntry(a, possiblePaths[i]) THEN possiblePaths[i]
    ELSE probe(a, i + 1)

\* EpubExtractor.findContentOpf / fO
findContentOpf(a) ==
    IF a.container \in {"noAttr", "declared"}
    THEN a.fullPath
    ELSE probe(a, 1)

\* EpubExtractor.fO of the compact class: O.find(p => this.z.file(p)) || null
fO(a) ==
    IF a.container \in {"noAttr", "declared"}
    THEN a.fullPath
    ELSE IF \E i \in 1..Len(possiblePaths) : hasEntry(a, possiblePaths[i])
         THEN possiblePaths[CHOOSE i \in 1..Len(possiblePaths) :
                  /\ hasEntry(a, possiblePaths[i])
                  /\ \A j \in 1..(i - 1) : ~hasEntry(a, possiblePaths[j])]
         ELSE Null

-----------------------------------------------------------------------------
(* Package Parser *)

\* String.prototype.lastIndexOf('/') + 1
RECURSIVE lastSlash(_)
lastSlash(str) ==
    IF str = <<>> THEN 0
    ELSE IF str[Len(str)] = "/" THEN Len(str)
    ELSE lastSlash(SubSeq(str, 1, Len(str) - 1))

\* EpubExtractor.getOpfDirectory, and the same expression inlined elsewhere
getOpfDirectory(path) == SubSeq(path, 1, lastSlash(path))

\* the resolver of the class
resolve(i, base, ref) ==
    IF i = "compact" THEN s(base, ref) ELSE resolvePath(base, ref)

\* what the map callback returns for a spine entry without manifest item
NullChapter == [id |-> 0, path |-> Null, src |-> Null, title |-> Null]

\* item.getAttribute('title')?.trim() || null
attrTitle(a, k) ==
    IF TitleAttr(a, k) # Null /\ trim(TitleAttr(a, k)) # <<>>
    THEN trim(TitleAttr(a, k))
    ELSE Null

\* the map callback of parseContentOpf / p for the spine entry at index k - 1
spineChapter(i, a, opfDir, k) ==
    IF ~HasItem(a, k) THEN NullChapter
    ELSE [id |-> k,
          path |-> resolve(i, opfDir, Href(a, k)),
          src |-> IF i \in {"v12", "compact"} THEN Href(a, k) ELSE Null,
          title |-> CASE i = "v0" -> Null
                      [] i = "v1" -> attrTitle(a, k)
                      [] OTHER -> placeholder(k)]

\* .filter(Boolean) that lets every element through
keepAll(list) == list

\* .filter(Boolean)
filterBoolean(list) == SelectSeq(list, LAMBDA ch : ch # NullChapter)

\* the chapter list parseContentOpf / p assigns to this.chapters
spineChapters(i, a, opfDir) ==
    filterBoolean([k \in 1..a.n |-> spineChapter(i, a, opfDir, k)])

\* does building the list throw: resolvePath(opfDir, null)
spineThrows(a) == \E k \in 1..a.n : HasItem(a, k) /\ Href(a, k) = Null

-----------------------------------------------------------------------------
(* Navigation Resolver *)

\* v12 parseNcx: the { src, title } pairs pushed to navPoints
navPoints12(a) ==
    LET read(np) == [src |-> np.src,
                     title |-> IF np.text # Null THEN normalize(np.text)
                               ELSE Null]
        all == [j \in 1..Len(NavPoints(a)) |-> read(NavPoints(a)[j])]
    IN  SelectSeq(all, LAMBDA nav : Truthy(nav.title) /\ Truthy(nav.src))

\* v12 parseNcx: navPoints.find(nav => nav.src === chapter.src), then the
\* assignment of its title
mergeNcx12(list, navs) ==
    [i \in 1..Len(list) |->
        LET hits == {j \in 1..Len(navs) : navs[j].src = list[i].src}
        IN  IF hits = {} THEN list[i]
            ELSE LET first == CHOOSE j \in hits : \A h \in hits : j <= h
                 IN  [list[i] EXCEPT !.title = navs[first].title]]

\* compact p(): m[ch.s] after the loop that fills m (the last write wins)
mLookup(a, src) ==
    LET nps == NavPoints(a)
        hits == {j \in 1..Len(nps) : /\ nps[j].text # Null
                                      /\ nps[j].src # Null
                                      /\ Truthy(normalize(nps[j].text))
                                      /\ nps[j].src = src}
    IN  IF hits = {} THEN Null
        ELSE LET last == CHOOSE j \in hits : \A h \in hits : h <= j
             IN  normalize(nps[last].text)

\* compact p(): this.c.forEach(ch => ch.t = m[ch.s] || ch.t)
mergeNcxCompact(list, a) ==
    [i \in 1..Len(list) |->
        IF Truthy(mLookup(a, list[i].src))
        THEN [list[i] EXCEPT !.title = mLookup(a, list[i].src)]
        ELSE list[i]]

\* v2 parseNcx: the texts of all navLabel/text nodes, in document order
ncxTitles(a) ==
    LET labelled == SelectSeq(NavPoints(a), LAMBDA np : np.text # Null)
    IN  [j \in 1..Len(labelled) |-> normalize(labelled[j].text)]

\* v2 parseNcx: titles assigned by position when the counts agree
mergeNcx002(list, titles) ==
    IF Len(titles) = Len(list)
    THEN [i \in 1..Len(list) |-> [list[i] EXCEPT !.title = titles[i]]]
    ELSE list

\* the chapter list after the NCX of the archive has been merged into it
mergeNcx(i, list, a) ==
    CASE i = "v2" -> mergeNcx002(list, ncxTitles(a))
      [] i = "v12" -> mergeNcx12(list, navPoints12(a))
      [] OTHER -> mergeNcxCompact(list, a)

\* the title the fallback finds in a document, or Null
extract(i, doc) ==
    CASE i = "v2" -> extractTitleFromXhtml002(doc)
      [] i = "v12" -> extractTitleFromXhtml(doc)
      [] OTHER -> tSelect(doc)

-----------------------------------------------------------------------------
(* The harness of the pure functions *)

\* the pure functions are exercised without an instance
NoArchive == [kind |-> "none"]

ObjIdle ==
    /\ impl = "v12"
    /\ archive = NoArchive
    /\ concurrent = FALSE
    /\ zip = 0
    /\ contentOpfPath = Null
    /\ ncxPath = Null
    /\ arrays = <<>>
    /\ chapters = 0
    /\ initialized = FALSE
    /\ pc = <<>>
    /\ tasks = <<>>
    /\ opened = 0
    /\ parsed = 0
    /\ loads = {}

-----------------------------------------------------------------------------
(* The archives the pipeline is run on *)

\* what a spine slot may hold, per class: the classes without title
\* resolution never look at the NCX or at a chapter document
SlotKinds(i, withNav) ==
    IF i \notin TitleImpls
    THEN [item : {"none", "nohref", "plain", "titled", "blank"},
          doc : {"none"}, nav : {"none"}]
    ELSE [item : {"none", "nohref"}, doc : {"none"}, nav : {"none"}]
         \cup [item : {"plain"},
               doc : {"missing", "none", "h1", "short"},
               nav : IF withNav THEN {"none", "title", "empty", "same"}
                     ELSE {"none"}]
         \cup [item : {"titled"}, doc : {"none", "h1"},
               nav : IF withNav THEN {"none", "title"} ELSE {"none"}]

NcxModes(i) ==
    IF i \in TitleImpls
    THEN {"undeclared", "nohref", "nofile", "throws", "ok"}
    ELSE {"undeclared"}

\* where the package document is and how the container points to it
OebpsLayout ==
    [container |-> "declared", fullPath |-> OebpsDir \o ContentOpf,
     opfs |-> {OebpsDir \o ContentOpf}, dir |-> OebpsDir]

RootLayout ==
    [container |-> "absent", fullPath |-> Null,
     opfs |-> {ContentOpf}, dir |-> <<>>]

BadLayouts ==
    { [container |-> "absent", fullPath |-> Null, opfs |-> {}, dir |-> <<>>],
      [container |-> "noAttr", fullPath |-> Null,
       opfs |-> {ContentOpf}, dir |-> <<>>],
      [container |-> "declared", fullPath |-> OebpsDir \o ContentOpf,
       opfs |-> {}, dir |-> OebpsDir] }

Package(layout, openable, n, slot, ncx) ==
    [openable |-> openable, container |-> layout.container,
     fullPath |-> layout.fullPath, opfs |-> layout.opfs, dir |-> layout.dir,
     n |-> n, slot |-> slot, ncx |-> ncx]

\* an archive that cannot be opened, archives whose package document cannot
\* be located or read, every package under OEBPS/ behind a container
\* descriptor, and the packages without NCX at the archive root
Archives(i, maxSpine) ==
    {Package(OebpsLayout, FALSE, 0, <<>>, "undeclared")}
    \cup {Package(layout, TRUE, 0, <<>>, "undeclared") : layout \in BadLayouts}
    \cup UNION { UNION {
            {Package(OebpsLayout, TRUE, n, slot, ncx) :
                slot \in [1..n -> SlotKinds(i, ncx = "ok")]}
            : n \in 0..maxSpine} : ncx \in NcxModes(i)}
    \cup UNION {
            {Package(RootLayout, TRUE, n, slot, "undeclared") :
                slot \in [1..n -> SlotKinds(i, FALSE)]}
            : n \in 0..maxSpine}

-----------------------------------------------------------------------------
(* The instance: constructor, init() and the steps between its awaits *)

NoTasks == [arr |-> 0, pending |-> {}]

\* the constructor's assignments
InitObject(conc) ==
    /\ impl \in Impls
    /\ concurrent = conc
    /\ zip = 0
    /\ contentOpfPath = Null
    /\ ncxPath = Null
    /\ arrays = [c \in Calls |-> <<>>]
    /\ chapters = 0
    /\ initialized = FALSE
    /\ pc = [c \in Calls |-> "idle"]
    /\ tasks = [c \in Calls |-> NoTasks]
    /\ opened = 0
    /\ parsed = 0
    /\ loads = {}

\* this.chapters, dereferenced: 0 is the array the constructor assigned
ChaptersOf(ref) == IF ref = 0 THEN <<>> ELSE arrays[ref]

InFlight(c) == pc[c] \notin {"idle", "returned", "thrown"}

\* init() that runs the pipeline whether or not the instance is initialized
StartAlways(c) ==
    /\ pc[c] = "idle"
    /\ \A d \in 1..(c - 1) : pc[d] # "idle"
    /\ concurrent \/ \A d \in Calls \ {c} : ~InFlight(d)
    /\ pc' = [pc EXCEPT ![c] = "load"]
    /\ UNCHANGED <<pureVars, impl, archive, concurrent, zip, contentOpfPath,
                   ncxPath, arrays, chapters, initialized, tasks, opened,
                   parsed, loads>>

\* init(), up to its first await: if (this.initialized) return;
\* (the calls are numbered in the order in which they are issued)
Start(c) ==
    /\ pc[c] = "idle"
    /\ \A d \in 1..(c - 1) : pc[d] # "idle"
    /\ concurrent \/ \A d \in Calls \ {c} : ~InFlight(d)
    /\ pc' = [pc EXCEPT ![c] = IF initialized THEN "returned" ELSE "load"]
    /\ UNCHANGED <<pureVars, impl, archive, concurrent, zip, contentOpfPath,
                   ncxPath, arrays, chapters, initialized, tasks, opened,
                   parsed, loads>>

\* this.zip = await JSZip.loadAsync(...): a failure is rethrown by the catch
OpenArchive(c) ==
    /\ pc[c] = "load"
    /\ IF archive.openable
       THEN /\ zip' = opened + 1
            /\ opened' = opened + 1
            /\ pc' = [pc EXCEPT ![c] = IF impl = "v2" THEN "parse"
                                       ELSE "locate"]
       ELSE /\ pc' = [pc EXCEPT ![c] = "thrown"]
            /\ UNCHANGED <<zip, opened>>
    /\ UNCHANGED <<pureVars, impl, archive, concurrent, contentOpfPath,
                   ncxPath, arrays, chapters, initialized, tasks, parsed,
                   loads>>

\* this.contentOpfPath = await this.findContentOpf(); throw when it is falsy
Locate(c) ==
    /\ pc[c] = "locate"
    /\ contentOpfPath' = findContentOpf(archive)
    /\ pc' = [pc EXCEPT ![c] = IF Truthy(findContentOpf(archive))
                               THEN "parse" ELSE "thrown"]
    /\ UNCHANGED <<pureVars, impl, archive, concurrent, zip, ncxPath, arrays,
                   chapters, initialized, tasks, opened, parsed, loads>>

\* await this.parseContentOpf() / the first half of p(), and the test of
\* this.ncxPath that follows it
ParseContentOpf(c) ==
    /\ pc[c] = "parse"
    /\ LET path == IF impl = "v2" THEN findContentOpf(archive)
                   ELSE contentOpfPath
           opfDir == getOpfDirectory(path)
           declared == impl \in TitleImpls /\ archive.ncx # "undeclared"
           ncxThrows == declared /\ archive.ncx = "nohref"
           newNcx == IF declared /\ ~ncxThrows
                     THEN resolve(impl, opfDir, NcxHref) ELSE ncxPath
       IN  /\ contentOpfPath' = path
           /\ IF ~hasEntry(archive, path) \/ ncxThrows
              THEN /\ pc' = [pc EXCEPT ![c] = "thrown"]
                   /\ UNCHANGED <<ncxPath, arrays, chapters, parsed>>
              ELSE /\ ncxPath' = newNcx
                   /\ IF spineThrows(archive)
                      THEN /\ pc' = [pc EXCEPT ![c] = "thrown"]
                           /\ UNCHANGED <<arrays, chapters, parsed>>
                      ELSE /\ arrays' = [arrays EXCEPT
                                  ![c] = spineChapters(impl, archive, opfDir)]
                           /\ chapters' = c
                           /\ parsed' = parsed + 1
                           /\ pc' = [pc EXCEPT ![c] =
                                  IF impl \notin TitleImpls THEN "finish"
                                  ELSE IF Truthy(newNcx) THEN "ncx"
                                  ELSE "preload"]
    /\ UNCHANGED <<pureVars, impl, archive, concurrent, zip, initialized,
                   tasks, opened, loads>>

\* parseNcx that lets a missing or unreadable NCX end init()
ParseNcxFatal(c) ==
    /\ pc[c] = "ncx"
    /\ IF hasEntry(archive, ncxPath) /\ archive.ncx # "throws"
       THEN /\ arrays' = [arrays EXCEPT
                ![chapters] = mergeNcx(impl, ChaptersOf(chapters), archive)]
            /\ pc' = [pc EXCEPT ![c] = "preload"]
       ELSE /\ pc' = [pc EXCEPT ![c] = "thrown"]
            /\ UNCHANGED arrays
    /\ UNCHANGED <<pureVars, impl, archive, concurrent, zip, contentOpfPath,
                   ncxPath, chapters, initialized, tasks, opened, parsed,
                   loads>>

\* parseNcx / the second half of p(): nothing changes when the NCX has no
\* entry or when reading it throws; otherwise its titles are merged into the
\* array this.chapters points to when the read resumes
ParseNcx(c) ==
    /\ pc[c] = "ncx"
    /\ IF hasEntry(archive, ncxPath) /\ archive.ncx # "throws"
       THEN arrays' = [arrays EXCEPT
                ![chapters] = mergeNcx(impl, ChaptersOf(chapters), archive)]
       ELSE UNCHANGED arrays
    /\ pc' = [pc EXCEPT ![c] = "preload"]
    /\ UNCHANGED <<pureVars, impl, archive, concurrent, zip, contentOpfPath,
                   ncxPath, chapters, initialized, tasks, opened, parsed,
                   loads>>

\* the test that guards a chapter's extraction: the title is still
\* `章节${index + 1}` for the chapter's index in this.chapters
stillDefault(list, i) == list[i].title = placeholder(i)

\* preloadChapterTitles without the try/catch of its callbacks: a chapter
\* whose path has no entry rejects Promise.all and with it init()
PreloadStartFatal(c) ==
    /\ pc[c] = "preload"
    /\ LET list == ChaptersOf(chapters)
           wanted == {i \in 1..Len(list) : stillDefault(list, i)}
           reading == {i \in wanted : hasEntry(archive, list[i].path)}
       IN  /\ tasks' = [tasks EXCEPT ![c] = [arr |-> chapters,
                                             pending |-> reading]]
           /\ loads' = loads \cup {list[i].id : i \in reading}
           /\ pc' = [pc EXCEPT ![c] = IF reading = wanted THEN "tasks"
                                      ELSE "thrown"]
    /\ UNCHANGED <<pureVars, impl, archive, concurrent, zip, contentOpfPath,
                   ncxPath, arrays, chapters, initialized, opened, parsed>>

\* preloadChapterTitles / t(), up to the awaits inside the map callbacks: a
\* chapter whose title is no longer the default returns at once, one whose
\* path has no entry throws into its own catch, the others start their read
PreloadStart(c) ==
    /\ pc[c] = "preload"
    /\ LET list == ChaptersOf(chapters)
           reading == {i \in 1..Len(list) :
                         /\ stillDefault(list, i)
                         /\ hasEntry(archive, list[i].path)}
       IN  /\ tasks' = [tasks EXCEPT ![c] = [arr |-> chapters,
                                             pending |-> reading]]
           /\ loads' = loads \cup {list[i].id : i \in reading}
    /\ pc' = [pc EXCEPT ![c] = "tasks"]
    /\ UNCHANGED <<pureVars, impl, archive, concurrent, zip, contentOpfPath,
                   ncxPath, arrays, chapters, initialized, opened, parsed>>

\* a map callback that assigns the title it found to the first chapter of the
\* array that still has its default title, not to its own chapter
TaskDoneShared(c, i) ==
    /\ pc[c] = "tasks"
    /\ i \in tasks[c].pending
    /\ LET arr == tasks[c].arr
           path == arrays[arr][i].path
           title == IF readRejects(archive, path) THEN Null
                    ELSE extract(impl, docAt(archive, path))
           open == {j \in 1..Len(arrays[arr]) : stillDefault(arrays[arr], j)}
           first == CHOOSE j \in open : \A m \in open : j <= m
       IN  arrays' = IF Truthy(title) /\ open # {}
                     THEN [arrays EXCEPT ![arr][first].title = title]
                     ELSE arrays
    /\ tasks' = [tasks EXCEPT ![c].pending = @ \ {i}]
    /\ UNCHANGED <<pureVars, impl, archive, concurrent, zip, contentOpfPath,
                   ncxPath, chapters, initialized, pc, opened, parsed, loads>>

\* one map callback resumes with its document: the title found, if any, is
\* assigned to the chapter object the callback was created for; a read that
\* rejects lands in the callback's own catch and assigns nothing
TaskDone(c, i) ==
    /\ pc[c] = "tasks"
    /\ i \in tasks[c].pending
    /\ LET arr == tasks[c].arr
           path == arrays[arr][i].path
           title == IF readRejects(archive, path) THEN Null
                    ELSE extract(impl, docAt(archive, path))
       IN  arrays' = IF Truthy(title)
                     THEN [arrays EXCEPT ![arr][i].title = title]
                     ELSE arrays
    /\ tasks' = [tasks EXCEPT ![c].pending = @ \ {i}]
    /\ UNCHANGED <<pureVars, impl, archive, concurrent, zip, contentOpfPath,
                   ncxPath, chapters, initialized, pc, opened, parsed, loads>>

\* init() that does not await Promise.all before this.initialized = true
FinishEager(c) ==
    /\ pc[c] \in {"finish", "tasks"}
    /\ initialized' = TRUE
    /\ pc' = [pc EXCEPT ![c] = "returned"]
    /\ UNCHANGED <<pureVars, impl, archive, concurrent, zip, contentOpfPath,
                   ncxPath, arrays, chapters, tasks, opened, parsed, loads>>

\* Promise.all has settled (or there was nothing to wait for):
\* this.initialized = true
Finish(c) ==
    /\ \/ pc[c] = "finish"
       \/ pc[c] = "tasks" /\ tasks[c].pending = {}
    /\ initialized' = TRUE
    /\ pc' = [pc EXCEPT ![c] = "returned"]
    /\ UNCHANGED <<pureVars, impl, archive, concurrent, zip, contentOpfPath,
                   ncxPath, arrays, chapters, tasks, opened, parsed, loads>>

Step(c) ==
    \/ Start(c)
    \/ OpenArchive(c)
    \/ Locate(c)
    \/ ParseContentOpf(c)
    \/ ParseNcx(c)
    \/ PreloadStart(c)
    \/ \E i \in 1..MaxSpine : TaskDone(c, i)
    \/ Finish(c)

Next == \E c \in Calls : Step(c)

\* one caller: init() is called again only after the previous call settled
SeqArchives(i) == Archives(i, MaxSpine)

Init ==
    /\ input = [none |-> TRUE]
    /\ output = [fn |-> "none", val |-> <<>>]
    /\ InitObject(FALSE)
    /\ archive \in SeqArchives(impl)

Spec == Init /\ [][Next]_vars

\* callers that do not wait for each other, on a well-formed archive
ConcSlotKinds(i) ==
    {[item |-> "none", doc |-> "none", nav |-> "none"]}
    \cup ([item : {"plain"}, doc : {"none", "h1"}, nav : {"none", "title"}]
          \cap SlotKinds(i, TRUE))

ConcArchives(i) ==
    UNION { {Package(OebpsLayout, TRUE, n, slot,
                     IF i \in TitleImpls THEN "ok" ELSE "undeclared") :
                slot \in [1..n -> ConcSlotKinds(i)]}
            : n \in 0..MaxConcSpine}

InitConc ==
    /\ input = [none |-> TRUE]
    /\ output = [fn |-> "none", val |-> <<>>]
    /\ InitObject(TRUE)
    /\ archive \in ConcArchives(impl)

SpecConc == InitConc /\ [][Next]_vars

Ready == initialized

-----------------------------------------------------------------------------
(* The pipeline on archives whose NCX is written in every way *)

NavSlotKinds ==
    {[item |-> "none", doc |-> "none", nav |-> "none"]}
    \cup [item : {"plain"}, doc : {"h1"},
          nav : {"none", "title", "frag", "dot", "nolabel", "nosrc",
                 "nested"}]

\* packages that declare an NCX which is well-formed, absent from the
\* archive, or throws when it is read or queried
NavArchives ==
    UNION { UNION {
        {Package(OebpsLayout, TRUE, n, slot, ncx) :
            slot \in [1..n -> NavSlotKinds]}
        : n \in 0..MaxSpine} : ncx \in {"ok", "nofile", "throws"}}

InitNav ==
    /\ input = [none |-> TRUE]
    /\ output = [fn |-> "none", val |-> <<>>]
    /\ InitObject(FALSE)
    /\ impl \in TitleImpls
    /\ archive \in NavArchives

SpecNav == InitNav /\ [][Next]_vars

-----------------------------------------------------------------------------
(* Specification of the path resolvers as pure functions *)

NoOutput == [fn |-> "none", val |-> <<>>]

InitPath ==
    /\ input \in [base : Strs(MaxBaseLen), ref : Strs(MaxRefLen)]
    /\ output = NoOutput
    /\ ObjIdle

CallResolvePath ==
    /\ output.fn = "none"
    /\ output' = [fn |-> "resolvePath",
                  val |-> resolvePath(input.base, input.ref)]
    /\ UNCHANGED <<input, objVars>>

CallS ==
    /\ output.fn = "none"
    /\ output' = [fn |-> "s", val |-> s(input.base, input.ref)]
    /\ UNCHANGED <<input, objVars>>

CallResolveRelativePath ==
    /\ output.fn = "none"
    /\ output' = [fn |-> "resolveRelativePath",
                  val |-> resolveRelativePath(input.base, input.ref)]
    /\ UNCHANGED <<input, objVars>>

NextPath == CallResolvePath \/ CallS \/ CallResolveRelativePath

SpecPath == InitPath /\ [][NextPath]_vars

-----------------------------------------------------------------------------
(* Specification of the heading heuristics as a pure function *)

\* what one selector can find: nothing, or an element with one of these texts
ElementTexts(sel) ==
    {Null, <<" ">>, <<"\n", "x", " ">>, <<sel, "t">>, <<sel, " ", "\n", "t">>}

Docs == {d \in [{"h1", "h2", "title", "Title", "h3"} ->
                  UNION {ElementTexts(sel) :
                           sel \in {"h1", "h2", "title", "Title", "h3"}}] :
           \A sel \in DOMAIN d : d[sel] \in ElementTexts(sel)}

InitTitle ==
    /\ input \in [doc : Docs]
    /\ output = NoOutput
    /\ ObjIdle

CallExtractTitleFromXhtml ==
    /\ output.fn = "none"
    /\ output' = [fn |-> "extractTitleFromXhtml",
                  val |-> extractTitleFromXhtml(input.doc)]
    /\ UNCHANGED <<input, objVars>>

CallExtractTitleFromXhtml002 ==
    /\ output.fn = "none"
    /\ output' = [fn |-> "extractTitleFromXhtml002",
                  val |-> extractTitleFromXhtml002(input.doc)]
    /\ UNCHANGED <<input, objVars>>

CallT ==
    /\ output.fn = "none"
    /\ output' = [fn |-> "t", val |-> tSelect(input.doc)]
    /\ UNCHANGED <<input, objVars>>

NextTitle ==
    CallExtractTitleFromXhtml \/ CallExtractTitleFromXhtml002 \/ CallT

SpecTitle == InitTitle /\ [][NextTitle]_vars

-----------------------------------------------------------------------------
(* Specification of the Container Locator as a pure function *)

\* a package document path that is none of the conventional ones
CustomOpf == <<"p", "/", "x", ".", "o", "p", "f">>

\* META-INF/container.xml is absent, has no rootfile element, has a rootfile
\* without full-path attribute, or declares one of four paths; any of the
\* four paths may or may not have an entry
LocateLayouts ==
    LET paths == {possiblePaths[i] : i \in 1..Len(possiblePaths)}
                     \cup {CustomOpf}
    IN  UNION {
          {[container |-> "declared", fullPath |-> decl, opfs |-> held,
            dir |-> getOpfDirectory(decl)] : decl \in paths}
          \cup {[container |-> kind, fullPath |-> Null, opfs |-> held,
                 dir |-> <<>>] : kind \in {"absent", "noRootfile", "noAttr"}}
          : held \in SUBSET paths}

InitLocate ==
    /\ input \in {[zip |-> Package(layout, TRUE, 0, <<>>, "undeclared")] :
                    layout \in LocateLayouts}
    /\ output = NoOutput
    /\ ObjIdle

CallFindContentOpf ==
    /\ output.fn = "none"
    /\ output' = [fn |-> "findContentOpf", val |-> findContentOpf(input.zip)]
    /\ UNCHANGED <<input, objVars>>

CallFO ==
    /\ output.fn = "none"
    /\ output' = [fn |-> "fO", val |-> fO(input.zip)]
    /\ UNCHANGED <<input, objVars>>

NextLocate == CallFindContentOpf \/ CallFO

SpecLocate == InitLocate /\ [][NextLocate]_vars

-----------------------------------------------------------------------------
(* Extractor Facade: the query operations *)

\* What a query yields: the Error it throws, named by what its message
\* says, or the value it returns: a number, a list of titles, or a string
\* (a title, or the path of the entry a Blob was read from).
Thrown(message) == [err |-> message, num |-> 0, list |-> <<>>, str |-> <<>>]

ReturnedNumber(n) == [err |-> "none", num |-> n, list |-> <<>>, str |-> <<>>]

ReturnedList(l) == [err |-> "none", num |-> 0, list |-> l, str |-> <<>>]

ReturnedString(str) == [err |-> "none", num |-> 0, list |-> <<>>, str |-> str]

\* no query has been made yet
NoResult == Thrown("no call")

NotInitialized == Thrown("call init() first")
InvalidIndex == Thrown("chapter index invalid")
FileNotFound == Thrown("chapter file not found")
ReadRejected == Thrown("async rejected")

\* the classes that have each query and guard it with this.initialized
CountImpls == {"v0", "v1", "v2", "v12"}
GuardedCountImpls == {"v2", "v12"}
TitleQueryImpls == {"v1", "v2", "v12", "compact"}

\* getChapterCount
getChapterCount(i) ==
    IF i \in GuardedCountImpls /\ ~initialized THEN NotInitialized
    ELSE ReturnedNumber(Len(ChaptersOf(chapters)))

\* getChapterTitles
getChapterTitles ==
    IF ~initialized THEN NotInitialized
    ELSE ReturnedList([j \in 1..Len(ChaptersOf(chapters)) |->
                          ChaptersOf(chapters)[j].title])

\* a range test that lets the index one past the end through
outOfRangeLax(chapterIndex) ==
    chapterIndex < 0 \/ chapterIndex > Len(ChaptersOf(chapters))

\* chapterIndex < 0 || chapterIndex >= this.chapters.length
outOfRange(chapterIndex) ==
    chapterIndex < 0 \/ chapterIndex >= Len(ChaptersOf(chapters))

\* the value of an array element that does not exist
Undefined == [id |-> 0 - 1, path |-> Null, src |-> Null, title |-> Null]

\* reading a property of undefined
TypeError == Thrown("TypeError")

\* this.chapters[chapterIndex] (the model's sequences count from 1)
chapterAt(chapterIndex) ==
    IF chapterIndex + 1 \in 1..Len(ChaptersOf(chapters))
    THEN ChaptersOf(chapters)[chapterIndex + 1]
    ELSE Undefined

\* getChapterTitle
getChapterTitle(chapterIndex) ==
    IF ~initialized THEN NotInitialized
    ELSE IF outOfRange(chapterIndex) THEN InvalidIndex
    ELSE IF chapterAt(chapterIndex) = Undefined THEN TypeError
    ELSE ReturnedString(chapterAt(chapterIndex).title)

\* getChapterXhtml that reports a missing entry with the message of the
\* range test
getChapterXhtmlOneMessage(chapterIndex) ==
    IF ~initialized THEN NotInitialized
    ELSE IF outOfRange(chapterIndex) THEN InvalidIndex
    ELSE LET chapter == chapterAt(chapterIndex)
         IN  IF chapter = Undefined THEN TypeError
             ELSE IF ~hasEntry(archive, chapter.path) THEN InvalidIndex
             ELSE IF readRejects(archive, chapter.path) THEN ReadRejected
             ELSE ReturnedString(chapter.path)

\* getChapterXhtml: the Blob is identified by the entry it was read from
getChapterXhtml(chapterIndex) ==
    IF ~initialized THEN NotInitialized
    ELSE IF outOfRange(chapterIndex) THEN InvalidIndex
    ELSE LET chapter == chapterAt(chapterIndex)
         IN  IF chapter = Undefined THEN TypeError
             ELSE IF ~hasEntry(archive, chapter.path) THEN FileNotFound
             ELSE IF readRejects(archive, chapter.path) THEN ReadRejected
             ELSE ReturnedString(chapter.path)

\* the indices a caller passes
Indices == (0 - 1)..(MaxSpine + 1)

QueryCount ==
    /\ impl \in CountImpls
    /\ input' = [index |-> 0 - 1]
    /\ output' = [fn |-> "getChapterCount", val |-> getChapterCount(impl)]
    /\ UNCHANGED objVars

QueryTitles ==
    /\ impl \in TitleQueryImpls
    /\ input' = [index |-> 0 - 1]
    /\ output' = [fn |-> "getChapterTitles", val |-> getChapterTitles]
    /\ UNCHANGED objVars

QueryTitle ==
    /\ impl \in TitleQueryImpls
    /\ \E chapterIndex \in Indices :
          /\ input' = [index |-> chapterIndex]
          /\ output' = [fn |-> "getChapterTitle",
                        val |-> getChapterTitle(chapterIndex)]
    /\ UNCHANGED objVars

QueryXhtml ==
    /\ \E chapterIndex \in Indices :
          /\ input' = [index |-> chapterIndex]
          /\ output' = [fn |-> "getChapterXhtml",
                        val |-> getChapterXhtml(chapterIndex)]
    /\ UNCHANGED objVars

\* what a spine slot holds in the archives the queries are run on
QuerySlotKinds ==
    {[item |-> "none", doc |-> "none", nav |-> "none"]}
    \cup [item : {"plain"}, doc : {"missing", "corrupt", "none", "h1"},
          nav : {"none"}]

\* an archive that cannot be opened, archives without a package document,
\* and packages whose chapter documents are present, absent or unreadable;
\* the classes that look for an NCX also get packages that declare one the
\* archive does not hold
QueryArchives(i) ==
    {Package(OebpsLayout, FALSE, 0, <<>>, "undeclared")}
    \cup {Package(layout, TRUE, 0, <<>>, "undeclared") : layout \in BadLayouts}
    \cup UNION { UNION {
            {Package(OebpsLayout, TRUE, n, slot, ncx) :
                slot \in [1..n -> QuerySlotKinds]}
            : n \in 0..MaxSpine}
          : ncx \in {"undeclared", "nofile"} \cap NcxModes(i)}

InitQuery ==
    /\ input = [index |-> 0 - 1]
    /\ output = [fn |-> "none", val |-> NoResult]
    /\ InitObject(FALSE)
    /\ archive \in QueryArchives(impl)

InitStep == \E c \in Calls : Step(c)

NextQuery == InitStep \/ QueryCount \/ QueryTitles \/ QueryTitle \/ QueryXhtml

\* init() calls and queries in any order
SpecQuery == InitQuery /\ [][NextQuery]_vars

-----------------------------------------------------------------------------
(* C1, C2: the path resolver's contract *)

IsPathCall == output.fn \in {"resolvePath", "s"}

\* the non-empty segments of a path, scanned left to right
RECURSIVE C1_Scan(_, _, _)
C1_Scan(str, cur, acc) ==
    IF str = <<>> THEN (IF cur = <<>> THEN acc ELSE Append(acc, cur))
    ELSE IF Head(str) = "/"
         THEN C1_Scan(Tail(str), <<>>, IF cur = <<>> THEN acc
                                       ELSE Append(acc, cur))
         ELSE C1_Scan(Tail(str), Append(cur, Head(str)), acc)

C1_Segments(str) == C1_Scan(str, <<>>, <<>>)

\* the segment stack after the first n segments of ref
C1_Stack(base, ref) ==
    LET segs == C1_Segments(ref)
        st[n \in 0..Len(segs)] ==
            IF n = 0 THEN C1_Segments(base)
            ELSE IF segs[n] = DotDot
                 THEN (IF st[n - 1] = <<>> THEN <<>>
                       ELSE SubSeq(st[n - 1], 1, Len(st[n - 1]) - 1))
                 ELSE st[n - 1] \o <<segs[n]>>
    IN  st[Len(segs)]

\* the stack written out with one separator between segments
C1_Joined(segs) ==
    LET j[n \in 0..Len(segs)] ==
            IF n = 0 THEN <<>>
            ELSE IF n = 1 THEN segs[1]
            ELSE j[n - 1] \o <<"/">> \o segs[n]
    IN  j[Len(segs)]

\* C1: for a ref that does not start with '/', every resolver (resolvePath
\* and the compact s) returns the base segments, with each ref segment in
\* order popping the last one when it is '..' (nothing when none is left)
\* and appended otherwise, joined with '/'.
C1_ResolveRelative ==
    (IsPathCall /\ ~startsWith(input.ref))
        => output.val = C1_Joined(C1_Stack(input.base, input.ref))

\* C2: for a ref that starts with '/', every resolver returns the ref without
\* its first character, whatever the base.
C2_LeadingSeparator ==
    (IsPathCall /\ startsWith(input.ref)) => output.val = Tail(input.ref)

\* resolve("a/b", "/a/b") has been computed by the compact resolver
C2_Witness ==
    /\ output.fn = "s"
    /\ input.base = <<"a", "/", "b">>
    /\ input.ref = <<"/", "a", "/", "b">>
    /\ output.val = <<"a", "/", "b">>

-----------------------------------------------------------------------------
(* C8: the selector chain *)

\* does selector number i hold an element whose normalized text is long enough
C8_Acceptable(doc, i) ==
    /\ doc[titleSelectors[i]] # Null
    /\ Len(normalize(doc[titleSelectors[i]])) >= 2

\* the title the chain must yield: the first acceptable selector's text
C8_Expected(doc) ==
    IF \E i \in 1..5 : C8_Acceptable(doc, i)
    THEN LET first == CHOOSE i \in 1..5 :
                        /\ C8_Acceptable(doc, i)
                        /\ \A j \in 1..(i - 1) : ~C8_Acceptable(doc, j)
         IN  normalize(doc[titleSelectors[first]])
    ELSE Null

\* C8: the selectors are tried in the order h1, h2, class~title, class~Title,
\* h3; a match whose normalized text is shorter than 2 characters is rejected
\* and the next selector is tried; the result is the normalized text of the
\* first selector whose first match is long enough, or nothing.
C8_SelectorChain ==
    output.fn \in {"extractTitleFromXhtml", "t"}
        => output.val = C8_Expected(input.doc)

-----------------------------------------------------------------------------
(* C3 - C7: the chapter list and its titles after init() *)

\* the chapter list the query operations read
List == ChaptersOf(chapters)

\* C3: after a successful init the chapter list is the spine with exactly the
\* entries removed whose idref has no manifest item: no null hole, every
\* chapter a spine entry with an item, in spine order, and as many chapters
\* as spine entries minus the unresolvable ones.
C3_SpineOrder ==
    Ready =>
        /\ \A i \in 1..Len(List) :
              /\ List[i] # NullChapter
              /\ List[i].id \in 1..archive.n
              /\ HasItem(archive, List[i].id)
        /\ \A i, j \in 1..Len(List) : i < j => List[i].id < List[j].id
        /\ Len(List) = archive.n
              - Cardinality({k \in 1..archive.n : ~HasItem(archive, k)})

\* a Ready compact instance whose first spine entry was dropped
C3_Witness ==
    /\ Ready
    /\ impl = "compact"
    /\ archive.n = 2
    /\ ~HasItem(archive, 1)
    /\ Len(List) = 1
    /\ List[1].id = 2

\* does the NCX hold a navPoint with a label for the href of item k
C4_NavMatch(a, k) ==
    /\ a.ncx = "ok"
    /\ \E j \in 1..Len(NavPoints(a)) :
          /\ NavPoints(a)[j].src = Href(a, k)
          /\ normalize(NavPoints(a)[j].text) # <<>>

C4_NavTitle(a, k) ==
    LET j == CHOOSE n \in 1..Len(NavPoints(a)) :
                /\ NavPoints(a)[n].src = Href(a, k)
                /\ normalize(NavPoints(a)[n].text) # <<>>
    IN  normalize(NavPoints(a)[j].text)

\* what the class's own heading extraction yields for item k, or Null
C4_Heading(a, k) ==
    IF a.slot[k].doc # "missing" /\ Truthy(extract(impl, DocOf(a, k)))
    THEN extract(impl, DocOf(a, k))
    ELSE Null

\* C4: after init every title comes from the highest tier that yields one:
\* navigation match, else manifest title attribute, else heading extraction,
\* else the default title the package parser gave the chapter.  Stated for
\* the chapters no dropped spine entry precedes (the others are C6's case).
C4_TitlePrecedence ==
    (Ready /\ impl \in {"v12", "compact"}) =>
        \A i \in 1..Len(List) :
            LET k == List[i].id
            IN  k = i => List[i].title =
                  IF C4_NavMatch(archive, k) THEN C4_NavTitle(archive, k)
                  ELSE IF attrTitle(archive, k) # Null
                       THEN attrTitle(archive, k)
                  ELSE IF C4_Heading(archive, k) # Null
                       THEN C4_Heading(archive, k)
                  ELSE placeholder(k)

\* C5: a chapter whose href matches a navigation entry ends with the
\* navigation title, whatever that title reads and whatever its document
\* holds, and its document is never loaded by the fallback.
C5_NavigationWins ==
    (Ready /\ impl \in {"v12", "compact"}) =>
        \A i \in 1..Len(List) :
            C4_NavMatch(archive, List[i].id) =>
                /\ List[i].title = C4_NavTitle(archive, List[i].id)
                /\ List[i].id \notin loads

\* C6: without a navigation document, the chapter at 0-based index i that has
\* neither a manifest title attribute nor an acceptable heading is titled with
\* the default title of number i + 1 (List is 1-based: index i here).
C6_PlaceholderNumber ==
    (Ready /\ impl \in {"v12", "compact"} /\ archive.ncx \in {"undeclared", "nofile"}) =>
        \A i \in 1..Len(List) :
            LET k == List[i].id
            IN  (/\ attrTitle(archive, k) = Null
                 /\ \/ archive.slot[k].doc = "missing"
                    \/ C8_Expected(DocOf(archive, k)) = Null)
                => List[i].title = placeholder(i)

\* C7: after init every chapter's title is a non-empty string.
C7_TitleNonEmpty ==
    (Ready /\ impl # "v0") =>
        \A i \in 1..Len(List) : Truthy(List[i].title)

-----------------------------------------------------------------------------
(* C9, C10: init() called again *)

\* C9: an init() call that starts on a Ready instance returns at once: no
\* pipeline step, and archive handle, package path and chapter list are
\* left as they were.
C9_InitIdempotent ==
    [][\A c \in Calls :
          (pc[c] = "idle" /\ initialized /\ pc'[c] # "idle") =>
              /\ pc'[c] = "returned"
              /\ UNCHANGED <<zip, contentOpfPath, ncxPath, arrays, chapters,
                             initialized, tasks, opened, parsed, loads>>]_vars

\* both calls have returned, and the archive was opened and parsed once
C9_Witness ==
    /\ \A c \in Calls : pc[c] = "returned"
    /\ initialized
    /\ opened = 1
    /\ parsed = 1
    /\ Len(List) = 2

\* C10: whatever the interleaving of init() calls, the archive is opened and
\* the chapter list built at most once per instance.
C10_SinglePipeline ==
    impl \in {"v12", "compact"} => (opened <= 1 /\ parsed <= 1)

-----------------------------------------------------------------------------
(* C11 - C13: the query operations *)

\* a query has just run: only the queries write input and output, and they
\* leave the instance as it is, so the primed instance is the one queried
Queried == input' # input \/ output' # output

\* C11: a query operation (count, titles, single title, document) called on
\* an instance that is not Ready throws the not-initialized error, in every
\* class; so a value is returned only in Ready.
C11_NotReadyRejected ==
    [][(Queried /\ ~Ready') => output'.val = NotInitialized]_vars

\* C12: on a Ready instance getChapterTitle(i) and getChapterXhtml(i) throw
\* the bounds error for every i outside [0, count), and getChapterTitle(i)
\* returns the title of the chapter that i chapters precede in spine order
\* for every i inside.
C12_IndexBounds ==
    [][(/\ Queried
        /\ Ready'
        /\ output'.fn \in {"getChapterTitle", "getChapterXhtml"})
       => LET i == input'.index
              list == ChaptersOf(chapters')
              before(j) == {m \in 1..Len(list) : list[m].id < list[j].id}
          IN  IF i < 0 \/ i >= Len(list)
              THEN output'.val = InvalidIndex
              ELSE /\ output'.val.err # InvalidIndex.err
                   /\ output'.fn = "getChapterTitle" =>
                        \E j \in 1..Len(list) :
                            /\ Cardinality(before(j)) = i
                            /\ output'.val = ReturnedString(list[j].title)]_vars

\* getChapterXhtml(2) on a Ready compact instance of two chapters has thrown
\* the bounds error
C12_Witness ==
    /\ Ready
    /\ impl = "compact"
    /\ Len(ChaptersOf(chapters)) = 2
    /\ output.fn = "getChapterXhtml"
    /\ input.index = 2
    /\ output.val = InvalidIndex

\* C13: getChapterXhtml tests in the order not-initialized, bounds,
\* not-found: a call before Ready throws the not-initialized error, an index
\* outside [0, count) the bounds error, and only an index inside whose
\* chapter path has no archive entry the not-found error, whose message
\* differs from the other two.
C13_NotFoundDistinct ==
    [][(Queried /\ output'.fn = "getChapterXhtml")
       => LET i == input'.index
              list == ChaptersOf(chapters')
          IN  /\ FileNotFound.err \notin {InvalidIndex.err, NotInitialized.err}
              /\ ~Ready' => output'.val = NotInitialized
              /\ (Ready' /\ (i < 0 \/ i >= Len(list)))
                    => output'.val = InvalidIndex
              /\ (Ready' /\ i >= 0 /\ i < Len(list))
                    => (output'.val = FileNotFound
                          <=> ~hasEntry(archive', list[i + 1].path))]_vars

\* the document of the second chapter was asked for and its entry is missing
C13_Witness ==
    /\ Ready
    /\ output.fn = "getChapterXhtml"
    /\ input.index = 1
    /\ Len(ChaptersOf(chapters)) = 2
    /\ ~hasEntry(archive, ChaptersOf(chapters)[2].path)
    /\ output.val = FileNotFound

-----------------------------------------------------------------------------
(* C14, C15: the Container Locator *)

\* the container descriptor exists and its first rootfile has a full-path
C14_Declares(a) == a.container = "declared" /\ Truthy(a.fullPath)

\* the conventional paths that have an entry, as indices into the fixed order
C14_Conventional(a) ==
    {i \in 1..3 : <<OebpsDir \o ContentOpf, ContentOpf,
                    EpubDir \o ContentOpf>>[i] \in Entries(a)}

\* init() call c has asked the locator
C14_Located(c) == archive.openable /\ pc[c] \notin {"idle", "load", "locate"}

\* C14: the locator yields no path, and init() fails for it, exactly when the
\* container descriptor yields no root-file path and none of
\* OEBPS/content.opf, content.opf, EPUB/content.opf has an entry.
C14_LocateFailure ==
    (impl \in {"v12", "compact"} /\ \E c \in Calls : C14_Located(c)) =>
        /\ ~Truthy(contentOpfPath)
              <=> (~C14_Declares(archive) /\ C14_Conventional(archive) = {})
        /\ ~Truthy(contentOpfPath)
              => \A c \in Calls : C14_Located(c) => pc[c] = "thrown"

\* C15: when the container descriptor exists and declares a root-file path
\* the locator returns it, whatever conventional paths exist; otherwise it
\* returns the first of OEBPS/content.opf, content.opf, EPUB/content.opf
\* that has an entry.
C15_LocatePriority ==
    output.fn \in {"findContentOpf", "fO"} =>
        IF C14_Declares(input.zip)
        THEN output.val = input.zip.fullPath
        ELSE \A i \in C14_Conventional(input.zip) :
                (\A j \in C14_Conventional(input.zip) : i <= j)
                    => output.val = <<OebpsDir \o ContentOpf, ContentOpf,
                                      EpubDir \o ContentOpf>>[i]

-----------------------------------------------------------------------------
(* C16 - C19: the Navigation Resolver *)

\* C16: when the declared NCX has no archive entry, or throws when it is read
\* or queried, navigation resolution changes no chapter title, init() does
\* not throw, goes on to the fallback extraction and ends with the instance
\* Ready.
C16_NavigationNonFatal ==
    [][\A c \in Calls :
          (/\ archive.ncx \in {"nofile", "throws"}
           /\ pc[c] \in {"ncx", "preload", "tasks"})
          => /\ pc'[c] \in {"ncx", "preload", "tasks", "returned"}
             /\ pc[c] = "ncx" => (arrays' = arrays
                                    /\ pc'[c] \in {"ncx", "preload"})
             /\ pc'[c] = "returned" => initialized']_vars

\* a compact instance is Ready although reading its NCX threw, and the first
\* chapter, which the NCX has a label for, is titled by its own heading
C16_Witness ==
    /\ Ready
    /\ impl = "compact"
    /\ archive.ncx = "throws"
    /\ archive.n = 2
    /\ archive.slot[1].nav = "title"
    /\ 1 \in loads
    /\ ChaptersOf(chapters)[1].title = <<"H", " ", "a">>

\* navigation resolution has just finished: the titles are those before any
\* fallback extraction
C17_NavResolved == archive.ncx = "ok" /\ \E c \in Calls : pc[c] = "preload"

\* the label of the navPoint written for slot k, white space joined
C17_Label(a, k) ==
    LET RECURSIVE squeeze(_, _)
        squeeze(text, pending) ==
            IF text = <<>> THEN <<>>
            ELSE IF Head(text) \in {" ", "\n"}
                 THEN squeeze(Tail(text), TRUE)
                 ELSE (IF pending THEN <<" ">> ELSE <<>>)
                      \o <<Head(text)>> \o squeeze(Tail(text), FALSE)
        RECURSIVE lead(_)
        lead(text) ==
            IF text # <<>> /\ Head(text) \in {" ", "\n"}
            THEN lead(Tail(text)) ELSE text
    IN  squeeze(lead(NavText(a, k)), FALSE)

\* C17: in every class that resolves navigation titles, a chapter whose href
\* is the src of a labelled navigation entry gets that entry's label,
\* whatever other entries the navigation document has or lacks.
C17_MatchByPath ==
    (C17_NavResolved /\ impl \in {"v2", "v12", "compact"}) =>
        \A i \in 1..Len(ChaptersOf(chapters)) :
            LET ch == ChaptersOf(chapters)[i]
            IN  archive.slot[ch.id].nav = "title"
                    => ch.title = C17_Label(archive, ch.id)

\* a path without its fragment
C18_NoFragment(path) ==
    LET marks == {n \in 1..Len(path) : path[n] = "#"}
    IN  IF marks = {} THEN path
        ELSE SubSeq(path, 1, (CHOOSE n \in marks : \A m \in marks : n <= m) - 1)

\* the archive entry a navPoint src denotes: the src without its fragment,
\* relative to the directory of the NCX, '.' segments dropped
C18_Denoted(a, src) ==
    C1_Joined(C1_Segments(a.dir)
              \o SelectSeq(C1_Segments(C18_NoFragment(src)),
                           LAMBDA seg : seg # <<".">>))

\* C18: a chapter gets the label of a navigation entry whose src denotes the
\* chapter's archive path, also when the src is written with a fragment or
\* with a './' prefix.
C18_MatchByArchivePath ==
    (C17_NavResolved /\ impl \in {"v12", "compact"}) =>
        \A i \in 1..Len(ChaptersOf(chapters)) :
            LET ch == ChaptersOf(chapters)[i]
                k == ch.id
            IN  (/\ archive.slot[k].nav \in {"title", "frag", "dot"}
                 /\ C18_Denoted(archive, NavSrc(archive, k)) = ch.path)
                    => ch.title = C17_Label(archive, k)

\* C19: every navPoint of the NCX, at any depth, that has a non-empty label
\* and a content src contributes its (src, label) pair, so the chapter with
\* that href is titled by it; a navPoint without label or without src
\* contributes nothing, so its chapter keeps the default title.
C19_EveryNavPoint ==
    (C17_NavResolved /\ impl \in {"v12", "compact"}) =>
        \A i \in 1..Len(ChaptersOf(chapters)) :
            LET ch == ChaptersOf(chapters)[i]
                k == ch.id
            IN  /\ archive.slot[k].nav \in {"title", "nested"}
                    => ch.title = C17_Label(archive, k)
                /\ archive.slot[k].nav \in {"nolabel", "nosrc", "none"}
                    => ch.title = placeholder(k)

-----------------------------------------------------------------------------
(* C20: the fallback extraction, chapter by chapter *)

-----------------------------------------------------------------------------
(* C28, C29: the form of a resolved path, and the second resolver *)

\* the pieces of a path between its separators, empty ones included
C28_Pieces(path) ==
    LET cuts == {0, Len(path) + 1} \cup {n \in 1..Len(path) : path[n] = "/"}
    IN  {SubSeq(path, lo + 1, hi - 1) :
            <<lo, hi>> \in {pr \in cuts \X cuts :
                /\ pr[1] < pr[2]
                /\ \A n \in cuts : ~(pr[1] < n /\ n < pr[2])}}

\* C28: every path a resolver (resolvePath, s) returns is a normalized
\* archive-relative path: it does not start with '/', and none of its
\* segments is empty or '..'.
C28_NormalizedOutput ==
    IsPathCall =>
        \/ output.val = <<>>
        \/ /\ output.val[1] # "/"
           /\ <<>> \notin C28_Pieces(output.val)
           /\ <<".", ".">> \notin C28_Pieces(output.val)

\* C29: for every base and ref, EpubParser.resolveRelativePath returns what
\* EpubExtractor.resolvePath returns.
C29_ResolversAgree ==
    output.fn = "resolveRelativePath"
        => output.val = resolvePath(input.base, input.ref)

-----------------------------------------------------------------------------
(* C21, C23, C27: what the Package Parser lets through *)

\* C21: init() throws only when the archive cannot be opened or no package
\* document is located; when the located package document has an archive
\* entry no init() call throws, whatever the manifest, the spine and the
\* NCX hold.
C21_OnlyTwoFatal ==
    impl \in {"v12", "compact"} =>
        \A c \in Calls :
            pc[c] = "thrown"
                => (~archive.openable \/ contentOpfPath \notin archive.opfs)

\* C23: in every Ready state each chapter's path has an entry in the
\* archive.
C23_PathsExist ==
    (Ready /\ impl \in {"v12", "compact"}) =>
        \A i \in 1..Len(ChaptersOf(chapters)) :
            ChaptersOf(chapters)[i].path \in Entries(archive)

\* package parsing has just finished for some init() call: no navigation
\* title and no heading has been merged yet
C27_JustParsed ==
    /\ \E c \in Calls : pc[c] \in {"ncx", "preload", "finish"}
    /\ \A c \in Calls : pc[c] \notin {"tasks", "returned"}

\* C27: right after package parsing, in every class that gives chapters a
\* title, a chapter's title is the manifest item's title attribute trimmed
\* when that is present and non-empty, and the default title of its
\* position otherwise.  Stated for the chapters no dropped spine entry
\* precedes, whose spine and list positions are the same.
C27_InitialTitle ==
    (C27_JustParsed /\ impl \in {"v1", "v12", "compact"}) =>
        \A i \in 1..Len(ChaptersOf(chapters)) :
            LET ch == ChaptersOf(chapters)[i]
                declared == IF TitleAttr(archive, ch.id) = Null THEN <<>>
                            ELSE trim(TitleAttr(archive, ch.id))
            IN  ch.id = i =>
                    ch.title = IF declared # <<>> THEN declared
                               ELSE placeholder(i)

-----------------------------------------------------------------------------
(* C22, C24 - C26: the pipeline as a whole *)

\* C22: once the instance is Ready it stays Ready and the chapter list the
\* queries read (ids, order, paths, titles) never changes, whatever init()
\* calls are in flight or follow.
C22_ListImmutable ==
    [][(Ready /\ impl \in {"v12", "compact"})
        => (Ready' /\ ChaptersOf(chapters)' = ChaptersOf(chapters))]_vars

\* the title of spine entry k after navigation resolution is the default
\* title the package parser gave it
C24_StillDefault(a, k) ==
    ~C4_NavMatch(a, k) \/ C4_NavTitle(a, k) = placeholder(k)

\* C24: after init, a chapter (whose path has an entry) had its document
\* loaded by the fallback exactly when its title after navigation resolution
\* was still the default title the package parser gave it, and then it is
\* titled by the heading its document yields, if any; also behind dropped
\* spine entries.
C24_FallbackForPlaceholders ==
    (Ready /\ impl \in {"v12", "compact"}) =>
        \A i \in 1..Len(ChaptersOf(chapters)) :
            LET ch == ChaptersOf(chapters)[i]
                found == extract(impl, DocOf(archive, ch.id))
            IN  ch.path \in Entries(archive) =>
                    IF C24_StillDefault(archive, ch.id)
                    THEN /\ ch.id \in loads
                         /\ (found # Null /\ found # <<>>) => ch.title = found
                    ELSE ch.id \notin loads

\* the titles an archive ends with, if they depend on the archive alone:
\* the titles after package parsing and navigation merge, each replaced by
\* the heading of the chapter's own document where the extraction runs and
\* finds one
C25_Final(i, a) ==
    LET built == spineChapters(i, a, getOpfDirectory(findContentOpf(a)))
        merged == IF a.ncx = "ok" THEN mergeNcx(i, built, a) ELSE built
    IN  [j \in 1..Len(merged) |->
            LET found == IF merged[j].path \in Entries(a)
                         THEN extract(i, DocOf(a, merged[j].id)) ELSE Null
            IN  IF merged[j].title = placeholder(j)
                   /\ found # Null /\ found # <<>>
                THEN found ELSE merged[j].title]

\* C25: the per-chapter extraction tasks complete in any order; each
\* completion changes at most the title of its own chapter, and the titles
\* of the Ready instance are the same whatever the order was.
C25_OrderIndependent ==
    /\ []((Ready /\ impl \in {"v12", "compact"}) =>
            [j \in 1..Len(ChaptersOf(chapters)) |->
                ChaptersOf(chapters)[j].title] = C25_Final(impl, archive))
    /\ [][\A c \in Calls :
            (impl \in {"v12", "compact"} /\ pc[c] = "tasks"
                /\ arrays' # arrays)
            => \E i \in tasks[c].pending \ tasks'[c].pending :
                  /\ i \in 1..Len(arrays[tasks[c].arr])
                  /\ arrays' = [arrays EXCEPT ![tasks[c].arr][i].title =
                                    arrays'[tasks[c].arr][i].title]]_vars

\* the task of the second chapter has completed and written its heading
\* while the task of the first chapter is still pending
C25_Witness ==
    /\ impl = "compact"
    /\ pc[1] = "tasks"
    /\ tasks[1].pending = {1}
    /\ Len(arrays[1]) = 2
    /\ arrays[1][1].title = <<"章", "节", "1">>
    /\ arrays[1][2].title = <<"H", " ", "b">>

=============================================================================
